---- MODULE Spec2Model ----
(***************************************************************************)
(* Model of the MongoDB HTTP proxy (simple-mongo-proxy server).            *)
(*                                                                         *)
(* The process is a single-threaded Node.js event loop.  Every handler    *)
(* runs without interruption between two awaits that wait for network     *)
(* I/O (mongoClient.connect(), a driver call, mongoClient.close()); an    *)
(* `await` of an already settled promise resumes in the microtask queue,  *)
(* before any other I/O callback, so it does not interleave with other    *)
(* handlers.  One action of the model is one such uninterrupted run.      *)
(***************************************************************************)
EXTENDS Integers, Sequences, FiniteSets, TLC

\* ---------------------------------------------------------------- bounds
\* number of HTTP requests that arrive during one run of the process
MaxReq == 2
\* the documents of the collection have the keys 1..MaxDocs
MaxDocs == 2

\* ------------------------------------------------------------- constants
Absent == "<absent>"
NoCode == "<undefined>"

\* process.env.MONGODB_URI: unset, the empty string, a string the driver's
\* constructor rejects, a well-formed address of a host that never answers,
\* a well-formed address of a host that answers while the network is up
UriValues == {"absent", "empty", "malformed", "unreachable", "ok"}

DataOps == {"query", "aggregate", "count", "distinct", "insertOne", "insertMany"}

\* req.body as the handlers see it: a payload the driver accepts, a payload
\* the driver rejects, or no body at all (req.body is undefined)
Bodies == {"ok", "bad", "undef"}

\* errors that can be thrown inside the handlers
ParseError == [message |-> "Invalid scheme, expected connection string to start with mongodb://", code |-> NoCode]
ConnectError == [message |-> "Server selection timed out", code |-> NoCode]
DriverError == [message |-> "operation failed", code |-> "driver-code"]
DestructureError == [message |-> "Cannot destructure property 'collection' of 'req.body' as it is undefined.", code |-> NoCode]
NullDbError(prop) == [message |-> "Cannot read properties of null (reading '" \o prop \o "')", code |-> NoCode]

\* --------------------------------------- values found in a request body
\* a JavaScript value as far as the handlers look at it: its type and, for a
\* number, its value; for a sort specification, the direction of { k: dir }
\* (0 for the empty specification {})
Undefined == [t |-> "undefined", n |-> 0]
Null == [t |-> "null", n |-> 0]
Num(n) == [t |-> "number", n |-> n]
SortBy(dir) == [t |-> "object", n |-> dir]

\* the condition of `if (v)`
Truthy(v) == ~(v.t \in {"undefined", "null"} \/ (v.t = "number" /\ v.n = 0))

\* req.body.options: not sent (the default {} applies), null, or an object
NoOptions == [given |-> "undefined", sort |-> Undefined, skip |-> Undefined,
              limit |-> Undefined]
NullOptions == [NoOptions EXCEPT !.given = "null"]
SortValues == {Undefined, Null, Num(0), SortBy(0), SortBy(1), SortBy(-1)}
PagingValues == {Undefined, Null, Num(0), Num(1), Num(2)}
OptionValues ==
  {NoOptions, NullOptions} \cup
  [given : {"object"}, sort : SortValues, skip : PagingValues,
   limit : PagingValues]

\* a document is known by the value of its field k; the filter 0 is {}, the
\* filter n > 0 is { k: n }
Docs == 1..MaxDocs
MatchAll == 0
Filters == {MatchAll} \cup Docs \cup {MaxDocs + 1}
Matches(d, q) == q = MatchAll \/ d = q

\* the document of the body of an insert request
BodyDocument == 1

OptionsNullError == [message |-> "Cannot read properties of null (reading 'sort')", code |-> NoCode]

VARIABLES
  coll,         \* the documents of the collection, in natural order
  acked,        \* the documents whose /insertOne has been answered 200
  variant,      \* which server file runs: "enhanced" | "basic"
  uri,          \* MONGODB_URI
  netUp,        \* whether the database host currently answers
  proc,         \* "start" | "loaded" | "exited"
  exitCode,     \* -1 while the process runs, else the exit code
  listening,    \* the HTTP listener is open
  mongoClient,  \* "null" | "client"
  db,           \* "null" | "db"
  connState,    \* connect() of mongoClient: "none" | "pending" | "ok" | "failed"
  constructed,  \* number of MongoClient objects constructed
  connectCalls, \* number of mongoClient.connect() invocations
  sigint,       \* SIGINT handler: "idle" | "closing" | "done" | "unhandled" | "crashed"
  closeState,   \* the latest mongoClient.close(): "none" | "pending" | "resolved" | "rejected"
  nreq,         \* number of requests that have arrived
  reqs,         \* caller id -> handler state; caller 0 is the app.listen callback
  lastResp      \* the response sent by the latest res.json(...)

vars == <<coll, acked, variant, uri, netUp, proc, exitCode, listening, mongoClient, db,
          connState, constructed, connectCalls, sigint, closeState, nreq,
          reqs, lastResp>>

Ids == 1..MaxReq
Callers == 0..MaxReq

\* ------------------------------------------------------ diagnose results
NoTest == [status |-> Absent, error |-> Absent]
TestSuccess == [status |-> "success", error |-> Absent]
\* a failed probe recorded without its message
TestFailed_NoMessage(err) == [status |-> "failed", error |-> Absent]

TestFailed(err) == [status |-> "failed", error |-> err.message]
NoTests == [connection |-> NoTest, ping |-> NoTest,
            listCollections |-> NoTest, networkTests |-> NoTest]

\* --------------------------------------------------------- request state
\* dbSeen is the value of db that the handler found when it first
\* dereferenced db after `await connectToMongo()` returned (a data handler
\* at db.collection(collection), /diagnose right after it has recorded
\* Test 1 as success): "none" while it has not got there.
\* calls is the number of driver primitive calls a data handler has issued.
\* query and options are the fields of the body of a /query request, cursor
\* the cursor methods its handler has called, found what the database has
\* read for its toArray().
NoReq == [kind |-> "none", body |-> "none", pc |-> "none", sent |-> 0,
          dbSeen |-> "none", calls |-> 0, tests |-> NoTests,
          query |-> MatchAll, options |-> NoOptions, cursor |-> <<>>,
          found |-> <<>>]

NoResp == [kind |-> "none", status |-> 0, error |-> Absent,
           code |-> Absent, details |-> Absent, result |-> Absent,
           health |-> Absent, connected |-> Absent, ping |-> Absent,
           pingError |-> Absent, tests |-> NoTests, docs |-> <<>>]

\* the state of a process right after it is started, before module load
Fresh ==
  /\ uri \in UriValues
  /\ netUp \in (IF uri = "ok" THEN BOOLEAN ELSE {FALSE})
  /\ proc = "start"
  /\ exitCode = -1
  /\ listening = FALSE
  /\ mongoClient = "null"
  /\ db = "null"
  /\ connState = "none"
  /\ constructed = 0
  /\ connectCalls = 0
  /\ sigint = "idle"
  /\ closeState = "none"
  /\ nreq = 0
  /\ reqs = [c \in Callers |-> NoReq]
  /\ lastResp = NoResp

\* the server with diagnostics (/diagnose, probing /health, detailed errors)
Init == variant = "enhanced" /\ coll = <<>> /\ acked = {} /\ Fresh

\* the server of server.js: no /diagnose, /health without probes, every
\* catch block answers { error } only
InitBasic == variant = "basic" /\ coll = <<>> /\ acked = {} /\ Fresh

\* ------------------------------------------------------------ startup
\* a validation that tests for undefined only
UriMissing_UndefinedOnly(u) == u = "absent"

\* `if (!MONGODB_URI)`: undefined and "" are both falsy
UriMissing(u) == u \in {"absent", "empty"}

Running == proc = "loaded"

\* module load: validate the configuration, then app.listen(...) and
\* process.on('SIGINT', ...)
Load ==
  /\ proc = "start"
  /\ IF UriMissing(uri)
       THEN /\ proc' = "exited"
            /\ exitCode' = 1
       ELSE /\ proc' = "loaded"
            /\ exitCode' = exitCode
  /\ UNCHANGED <<uri, variant, coll, acked, closeState, netUp, listening, mongoClient, db, connState,
                 constructed, connectCalls, sigint, nreq, reqs, lastResp>>

\* ------------------------------------------------------ the environment
\* the database host comes and goes; an unreachable host never answers
NetFlip ==
  /\ Running
  /\ uri = "ok"
  /\ netUp' = ~netUp
  /\ UNCHANGED <<uri, variant, coll, acked, closeState, proc, exitCode, listening, mongoClient, db,
                 connState, constructed, connectCalls, sigint, nreq, reqs,
                 lastResp>>

\* how an awaited mongoClient.connect() can settle
ConnectOutcomes ==
  IF ~netUp THEN {"fail"}
  ELSE IF sigint = "idle" THEN {"ok"} ELSE {"ok", "fail"}

\* how an awaited driver call on an established db can settle: it fails on
\* a payload the driver rejects and while the host does not answer; once
\* close() has been called on the client either outcome is possible
DriverOutcomes(body) ==
  IF body = "bad" \/ ~netUp THEN {"fail"}
  ELSE IF sigint = "idle" THEN {"ok"} ELSE {"ok", "fail"}

\* -------------------------------------------------------- connectToMongo
\* a guard that tests the database handle instead of the client
AlreadyInitialised_ByDb == db # "null"

\* `if (mongoClient) return;`
AlreadyInitialised == mongoClient # "null"

\* a connectToMongo() that takes the database handle before connect() has
\* completed
ConnectBegin_EagerDb(outcome) ==
  \/ /\ AlreadyInitialised
     /\ outcome = "returned"
     /\ UNCHANGED <<mongoClient, db, connState, constructed, connectCalls>>
  \/ /\ ~AlreadyInitialised
     /\ uri = "malformed"
     /\ outcome = "threw"
     /\ UNCHANGED <<mongoClient, db, connState, constructed, connectCalls>>
  \/ /\ ~AlreadyInitialised
     /\ uri # "malformed"
     /\ outcome = "pending"
     /\ mongoClient' = "client"
     /\ constructed' = constructed + 1
     /\ connectCalls' = connectCalls + 1
     /\ connState' = "pending"
     /\ db' = "db"

\* connectToMongo() up to its first suspension.  outcome is
\*   "returned": the guard returned at once,
\*   "threw":    new MongoClient(MONGODB_URI) threw, nothing was assigned,
\*   "pending":  mongoClient is assigned and connect() is outstanding.
ConnectBegin(outcome) ==
  \/ /\ AlreadyInitialised
     /\ outcome = "returned"
     /\ UNCHANGED <<mongoClient, db, connState, constructed, connectCalls>>
  \/ /\ ~AlreadyInitialised
     /\ uri = "malformed"
     /\ outcome = "threw"
     /\ UNCHANGED <<mongoClient, db, connState, constructed, connectCalls>>
  \/ /\ ~AlreadyInitialised
     /\ uri # "malformed"
     /\ outcome = "pending"
     /\ mongoClient' = "client"
     /\ constructed' = constructed + 1
     /\ connectCalls' = connectCalls + 1
     /\ connState' = "pending"
     /\ db' = db

\* a catch block that clears the client so that a later call retries
ConnectEnd_ResetOnFailure(outcome) ==
  /\ outcome \in ConnectOutcomes
  /\ IF outcome = "ok"
       THEN /\ db' = "db"
            /\ connState' = "ok"
            /\ mongoClient' = mongoClient
       ELSE /\ db' = db
            /\ connState' = "failed"
            /\ mongoClient' = "null"
  /\ UNCHANGED <<constructed, connectCalls>>

\* connectToMongo() from the point where connect() settles: on success
\* `db = mongoClient.db(DATABASE)`, on failure the catch block logs and
\* rethrows; mongoClient is left as it is in both cases
ConnectEnd(outcome) ==
  /\ outcome \in ConnectOutcomes
  /\ IF outcome = "ok"
       THEN /\ db' = "db"
            /\ connState' = "ok"
       ELSE /\ db' = db
            /\ connState' = "failed"
  /\ UNCHANGED <<mongoClient, constructed, connectCalls>>

\* ----------------------------------------------------------- responses
\* res.json drops fields whose value is undefined
Json(v) == IF v = NoCode THEN Absent ELSE v

\* the four read handlers answer with error, code and details
DetailedCatch == {"query", "aggregate", "count", "distinct"}

\* a catch block that forgets res.status(500)
CatchResp_NoStatus(i, op, err) ==
  [NoResp EXCEPT !.kind = op, !.status = 200, !.error = Json(err.message)]

\* the catch blocks of server.js
CatchRespBasic(i, op, err) ==
  [NoResp EXCEPT !.kind = op, !.status = 500, !.error = Json(err.message)]

\* the catch block of the handler of a data operation
CatchResp(i, op, err) ==
  IF variant = "basic" THEN CatchRespBasic(i, op, err)
  ELSE IF op \in DetailedCatch
    THEN [NoResp EXCEPT !.kind = op, !.status = 500,
                        !.error = Json(err.message), !.code = Json(err.code),
                        !.details = "Check server logs for more information"]
    ELSE [NoResp EXCEPT !.kind = op, !.status = 500,
                        !.error = Json(err.message)]

\* res.json(results) and its siblings: status 200 with the driver's result
OkResp(i, op) ==
  [NoResp EXCEPT !.kind = op, !.status = 200,
                 !.result = "driver result"]

\* res.json(results) of /query
QueryResp(i, r) == [OkResp(i, "query") EXCEPT !.docs = r.found]

\* the response to a driver call of request r that has resolved
DriverOkResp(i, r) ==
  IF r.kind = "query" THEN QueryResp(i, r) ELSE OkResp(i, r.kind)

\* the handler of request r has sent its response and returned; of the
\* request only the family of its endpoint is remembered
Family(k) == IF k \in DataOps THEN "data" ELSE k

Done(r, seen) ==
  [NoReq EXCEPT !.kind = Family(r.kind), !.pc = "done", !.sent = r.sent + 1,
                !.dbSeen = seen, !.calls = r.calls]

\* ------------------------------------------------------- POST /query
Call(m, arg) == [m |-> m, arg |-> arg]

\* a handler that applies every option that is present
CursorCalls_IfPresent(o) ==
  (IF o.sort # Undefined THEN <<Call("sort", o.sort)>> ELSE <<>>) \o
  (IF o.skip # Undefined THEN <<Call("skip", o.skip)>> ELSE <<>>) \o
  (IF o.limit # Undefined THEN <<Call("limit", o.limit)>> ELSE <<>>)

\* the cursor methods the handler calls on coll.find(query), in call order
CursorCalls(o) ==
  (IF Truthy(o.sort) THEN <<Call("sort", o.sort)>> ELSE <<>>) \o
  (IF Truthy(o.skip) THEN <<Call("skip", o.skip)>> ELSE <<>>) \o
  (IF Truthy(o.limit) THEN <<Call("limit", o.limit)>> ELSE <<>>)

\* documents s ordered by k in direction dir, ties in natural order
RECURSIVE SortDocs(_, _)
SortDocs(s, dir) ==
  IF dir = 0 \/ Len(s) <= 1 THEN s
  ELSE LET first == CHOOSE i \in 1..Len(s) : \A j \in 1..Len(s) :
                      \/ dir * s[i] < dir * s[j]
                      \/ s[i] = s[j] /\ i <= j
           rest == [j \in 1..(Len(s) - 1) |-> IF j < first THEN s[j] ELSE s[j + 1]]
       IN <<s[first]>> \o SortDocs(rest, dir)

\* what one cursor method makes of the documents s (limit(0) is no limit)
ApplyCall(s, c) ==
  CASE c.m = "sort" -> SortDocs(s, c.arg.n)
    [] c.m = "skip" -> SubSeq(s, c.arg.n + 1, Len(s))
    [] c.m = "limit" -> IF c.arg.n = 0 \/ c.arg.n >= Len(s) THEN s
                        ELSE SubSeq(s, 1, c.arg.n)

RECURSIVE ApplyCalls(_, _)
ApplyCalls(s, calls) ==
  IF calls = <<>> THEN s
  ELSE ApplyCalls(ApplyCall(s, Head(calls)), Tail(calls))

\* cursor.toArray() on the documents c for the filter q and the cursor
\* methods called
ToArray(c, q, calls) ==
  ApplyCalls(SelectSeq(c, LAMBDA d : Matches(d, q)), calls)

\* a write that is acknowledged without its document being stored
InsertInto_Unapplied(c, r) == c

\* what insertOne(document) and insertMany(documents) of request r make of
\* the documents c
InsertInto(c, r) ==
  IF r.kind \in {"insertOne", "insertMany"} THEN Append(c, BodyDocument) ELSE c

\* ------------------------------------------------- data-operation handlers
\* the handler has built its driver call and awaits it; the database reads
\* for a query no earlier than this
IssueDriverCall(r) ==
  LET calls == IF r.kind = "query" THEN CursorCalls(r.options) ELSE <<>>
  IN [r EXCEPT !.pc = "driver", !.dbSeen = "db", !.calls = r.calls + 1,
               !.cursor = calls,
               !.found = IF r.kind = "query" THEN ToArray(coll, r.query, calls)
                         ELSE <<>>]

\* a handler whose body dereferences db outside its try block: the
\* TypeError escapes and no response is ever sent
DataAfterConnect_Uncaught(i, r, d) ==
  IF r.body = "undef"
    THEN [req |-> Done(r, "none"), resp |-> CatchResp(i, r.kind, DestructureError)]
  ELSE IF d = "null"
    THEN [req |-> [r EXCEPT !.pc = "threw", !.dbSeen = "null"], resp |-> NoResp]
  ELSE IF r.kind = "query" /\ r.options.given = "null"
    THEN [req |-> Done(r, "db"), resp |-> CatchResp(i, r.kind, OptionsNullError)]
  ELSE [req |-> IssueDriverCall(r), resp |-> NoResp]

\* the handler from the statement after `await connectToMongo()` to its
\* next suspension, d being the value of db at that moment
DataAfterConnect(i, r, d) ==
  IF r.body = "undef"
    THEN [req |-> Done(r, "none"), resp |-> CatchResp(i, r.kind, DestructureError)]
  ELSE IF d = "null"
    THEN [req |-> Done(r, "null"),
          resp |-> CatchResp(i, r.kind, NullDbError("collection"))]
  ELSE IF r.kind = "query" /\ r.options.given = "null"
    THEN [req |-> Done(r, "db"), resp |-> CatchResp(i, r.kind, OptionsNullError)]
  ELSE [req |-> IssueDriverCall(r), resp |-> NoResp]

\* the handler when `await connectToMongo()` throws err
DataConnectThrew(i, r, err) ==
  [req |-> Done(r, "none"), resp |-> CatchResp(i, r.kind, err)]

\* ---------------------------------------------------------- GET /diagnose
DiagResp(i, tests) ==
  [NoResp EXCEPT !.kind = "diagnose", !.status = 200, !.tests = tests]

\* Test 1 succeeded; Tests 2 to 4 dereference db, which throws inside each
\* try block when db is null
DiagAfterConnect(i, r, d) ==
  LET t1 == [r.tests EXCEPT !.connection = TestSuccess]
  IN IF d = "null"
       THEN LET t4 == [t1 EXCEPT
                         !.ping = TestFailed(NullDbError("admin")),
                         !.listCollections = TestFailed(NullDbError("listCollections")),
                         !.networkTests = TestFailed(NullDbError("collection"))]
            IN [req |-> Done(r, "null"), resp |-> DiagResp(i, t4)]
       ELSE [req |-> [r EXCEPT !.pc = "d_ping", !.dbSeen = "db", !.tests = t1],
             resp |-> NoResp]

\* a connection failure reported as a server error
DiagConnectThrew_Status500(i, r, err) ==
  LET t1 == [r.tests EXCEPT !.connection = TestFailed(err)]
  IN [req |-> Done(r, "none"),
      resp |-> [DiagResp(i, t1) EXCEPT !.status = 500]]

\* Test 1 failed: `return res.json(diagnostics)`
DiagConnectThrew(i, r, err) ==
  LET t1 == [r.tests EXCEPT !.connection = TestFailed(err)]
  IN [req |-> Done(r, "none"), resp |-> DiagResp(i, t1)]

\* ------------------------------------------------------ app.listen callback
\* the callback only logs the outcome of connectToMongo()
StartupAfterConnect(r) == [req |-> [r EXCEPT !.pc = "done"], resp |-> NoResp]

StartupConnectThrew(r) == [req |-> [r EXCEPT !.pc = "done"], resp |-> NoResp]

\* ------------------------------------------------ callers of connectToMongo
\* the caller c resumes after `await connectToMongo()` returned
AfterConnect(c, r, d) ==
  CASE r.kind \in DataOps -> DataAfterConnect(c, r, d)
    [] r.kind = "diagnose" -> DiagAfterConnect(c, r, d)
    [] r.kind = "startup" -> StartupAfterConnect(r)

\* the caller c resumes after `await connectToMongo()` threw err
ConnectThrew(c, r, err) ==
  CASE r.kind \in DataOps -> DataConnectThrew(c, r, err)
    [] r.kind = "diagnose" -> DiagConnectThrew(c, r, err)
    [] r.kind = "startup" -> StartupConnectThrew(r)

\* apply the outcome of one uninterrupted run of the handler of caller c
Commit(c, out) ==
  /\ reqs' = [reqs EXCEPT ![c] = out.req]
  /\ lastResp' = IF out.resp = NoResp THEN lastResp ELSE out.resp

\* a handler runs from its first statement through connectToMongo() to its
\* first suspension
CallConnect(c, r) ==
  \E o \in {"returned", "threw", "pending"} :
    /\ ConnectBegin(o)
    /\ Commit(c, CASE o = "returned" -> AfterConnect(c, r, db)
                   [] o = "threw" -> ConnectThrew(c, r, ParseError)
                   [] o = "pending" -> [req |-> [r EXCEPT !.pc = "connecting"],
                                        resp |-> NoResp])

\* app.listen(PORT, async () => {...}): the listener is open and the
\* callback runs before any request is accepted
ListenCallback ==
  /\ Running
  /\ ~listening
  /\ listening' = TRUE
  /\ CallConnect(0, [NoReq EXCEPT !.kind = "startup"])
  /\ UNCHANGED <<uri, variant, coll, acked, closeState, netUp, proc, exitCode, sigint, nreq>>

CanArrive == Running /\ listening /\ nreq < MaxReq

\* POST /query, /aggregate, /count, /distinct, /insertOne, /insertMany
ArriveData(op, body) ==
  /\ CanArrive
  /\ nreq' = nreq + 1
  /\ CallConnect(nreq + 1, [NoReq EXCEPT !.kind = op, !.body = body])
  /\ UNCHANGED <<uri, variant, coll, acked, closeState, netUp, proc, exitCode, listening, sigint>>

\* POST /query with a filter and options
ArriveQuery(q, o) ==
  /\ CanArrive
  /\ nreq' = nreq + 1
  /\ CallConnect(nreq + 1, [NoReq EXCEPT !.kind = "query", !.body = "ok",
                                         !.query = q, !.options = o])
  /\ UNCHANGED <<uri, variant, coll, acked, closeState, netUp, proc, exitCode,
                 listening, sigint>>

\* GET /diagnose
ArriveDiagnose ==
  /\ CanArrive
  /\ nreq' = nreq + 1
  /\ CallConnect(nreq + 1, [NoReq EXCEPT !.kind = "diagnose"])
  /\ UNCHANGED <<uri, variant, coll, acked, closeState, netUp, proc, exitCode, listening, sigint>>

\* mongoClient.connect() settles and the caller that awaits it resumes
ConnectSettle(c) ==
  /\ Running
  /\ reqs[c].pc = "connecting"
  /\ \E o \in {"ok", "fail"} :
       /\ ConnectEnd(o)
       /\ Commit(c, IF o = "ok"
                      THEN AfterConnect(c, reqs[c], "db")
                      ELSE ConnectThrew(c, reqs[c], ConnectError))
  /\ UNCHANGED <<uri, variant, coll, acked, closeState, netUp, proc, exitCode, listening, sigint, nreq>>

\* a handler that issues the driver call again when it has failed
DataDriverSettle_Retry(i) ==
  /\ Running
  /\ reqs[i].pc = "driver"
  /\ \E o \in DriverOutcomes(reqs[i].body) :
       Commit(i, IF o = "ok"
                   THEN [req |-> Done(reqs[i], reqs[i].dbSeen),
                         resp |-> OkResp(i, reqs[i].kind)]
                   ELSE [req |-> [reqs[i] EXCEPT !.calls = reqs[i].calls + 1],
                         resp |-> NoResp])
  /\ UNCHANGED <<uri, variant, coll, acked, closeState, netUp, proc, exitCode, listening, mongoClient,
                 db, connState, constructed, connectCalls, sigint, nreq>>

\* the driver call of a data request settles
DataDriverSettle(i) ==
  /\ Running
  /\ reqs[i].pc = "driver"
  /\ \E o \in DriverOutcomes(reqs[i].body) :
       /\ Commit(i, [req |-> Done(reqs[i], reqs[i].dbSeen),
                     resp |-> IF o = "ok"
                                THEN DriverOkResp(i, reqs[i])
                                ELSE CatchResp(i, reqs[i].kind, DriverError)])
       /\ coll' = IF o = "ok" THEN InsertInto(coll, reqs[i]) ELSE coll
       /\ acked' = IF o = "ok" /\ reqs[i].kind = "insertOne"
                     THEN acked \cup {BodyDocument} ELSE acked
  /\ UNCHANGED <<uri, variant, closeState, netUp, proc, exitCode, listening, mongoClient, db,
                 connState, constructed, connectCalls, sigint, nreq>>

\* one awaited probe of /diagnose settles: db.admin().ping(),
\* db.listCollections().toArray(), countDocuments(), findOne()
DiagProbeStep(i, r, o) ==
  CASE r.pc = "d_ping" ->
         [req |-> [r EXCEPT !.pc = "d_list",
                            !.tests.ping = IF o = "ok" THEN TestSuccess
                                           ELSE TestFailed(DriverError)],
          resp |-> NoResp]
    [] r.pc = "d_list" ->
         [req |-> [r EXCEPT !.pc = "d_count",
                            !.tests.listCollections =
                               IF o = "ok" THEN TestSuccess
                               ELSE TestFailed(DriverError)],
          resp |-> NoResp]
    [] r.pc = "d_count" ->
         IF o = "ok"
           THEN [req |-> [r EXCEPT !.pc = "d_findOne"], resp |-> NoResp]
           ELSE [req |-> Done(r, r.dbSeen),
                 resp |-> DiagResp(i, [r.tests EXCEPT !.networkTests =
                                                  TestFailed(DriverError)])]
    [] r.pc = "d_findOne" ->
         [req |-> Done(r, r.dbSeen),
          resp |-> DiagResp(i, [r.tests EXCEPT !.networkTests =
                                   IF o = "ok" THEN TestSuccess
                                   ELSE TestFailed(DriverError)])]

DiagProbeSettle(i) ==
  /\ Running
  /\ reqs[i].pc \in {"d_ping", "d_list", "d_count", "d_findOne"}
  /\ \E o \in DriverOutcomes("ok") : Commit(i, DiagProbeStep(i, reqs[i], o))
  /\ UNCHANGED <<uri, variant, coll, acked, closeState, netUp, proc, exitCode, listening, mongoClient, db,
                 connState, constructed, connectCalls, sigint, nreq>>

\* ------------------------------------------------------------ GET /health
HealthResp(i, status, connected, ping, pingError) ==
  [NoResp EXCEPT !.kind = "health", !.status = 200,
                 !.health = status, !.connected = connected, !.ping = ping,
                 !.pingError = pingError]

\* a handler that probes without testing db first
HealthBegin_AlwaysProbe(i, r, d) ==
  IF d = "null"
    THEN [req |-> Done(r, "none"),
          resp |-> HealthResp(i, "degraded", "false", "failed",
                              NullDbError("admin").message)]
    ELSE [req |-> [r EXCEPT !.pc = "h_ping"], resp |-> NoResp]

\* the handler up to its first suspension: it probes only `if (db)`
HealthBegin(i, r, d) ==
  IF d = "null"
    THEN [req |-> Done(r, "none"),
          resp |-> HealthResp(i, "ok", "false", Absent, Absent)]
    ELSE [req |-> [r EXCEPT !.pc = "h_ping"], resp |-> NoResp]

\* an awaited probe settles: db.admin().ping(), then countDocuments()
HealthProbeStep(i, r, o) ==
  IF o = "fail"
    THEN [req |-> Done(r, r.dbSeen),
          resp |-> HealthResp(i, "degraded", "true", "failed",
                              DriverError.message)]
  ELSE IF r.pc = "h_ping"
    THEN [req |-> [r EXCEPT !.pc = "h_count"], resp |-> NoResp]
  ELSE [req |-> Done(r, r.dbSeen),
        resp |-> HealthResp(i, "ok", "true", "success", Absent)]

ArriveHealth ==
  /\ CanArrive
  /\ nreq' = nreq + 1
  /\ Commit(nreq + 1, HealthBegin(nreq + 1, [NoReq EXCEPT !.kind = "health"], db))
  /\ UNCHANGED <<uri, variant, coll, acked, closeState, netUp, proc, exitCode, listening, mongoClient, db,
                 connState, constructed, connectCalls, sigint>>

\* GET /health of server.js: res.json({ status, connected, database })
ArriveHealthBasic ==
  /\ CanArrive
  /\ nreq' = nreq + 1
  /\ Commit(nreq + 1,
            [req |-> Done([NoReq EXCEPT !.kind = "health"], "none"),
             resp |-> HealthResp(nreq + 1, "ok",
                                 IF db # "null" THEN "true" ELSE "false",
                                 Absent, Absent)])
  /\ UNCHANGED <<uri, variant, coll, acked, closeState, netUp, proc, exitCode, listening,
                 mongoClient, db, connState, constructed, connectCalls, sigint>>

HealthProbeSettle(i) ==
  /\ Running
  /\ reqs[i].pc \in {"h_ping", "h_count"}
  /\ \E o \in DriverOutcomes("ok") : Commit(i, HealthProbeStep(i, reqs[i], o))
  /\ UNCHANGED <<uri, variant, coll, acked, closeState, netUp, proc, exitCode, listening, mongoClient, db,
                 connState, constructed, connectCalls, sigint, nreq>>

\* ------------------------------------------------------------------ SIGINT
\* a handler that closes only an established connection: `if (db)`
Sigint_ByDb ==
  /\ Running
  /\ sigint \in {"idle", "unhandled"}
  /\ IF db # "null"
       THEN /\ sigint' = "closing"
            /\ closeState' = "pending"
            /\ UNCHANGED <<proc, exitCode>>
       ELSE /\ sigint' = "done"
            /\ closeState' = closeState
            /\ proc' = "exited"
            /\ exitCode' = 0
  /\ UNCHANGED <<uri, variant, coll, acked, netUp, listening, mongoClient, db, connState,
                 constructed, connectCalls, nreq, reqs, lastResp>>

\* process.on('SIGINT', ...) up to `await mongoClient.close()`, or to
\* process.exit(0) when there is no client
Sigint ==
  /\ Running
  /\ sigint \in {"idle", "unhandled"}
  /\ IF mongoClient # "null"
       THEN /\ sigint' = "closing"
            /\ closeState' = "pending"
            /\ UNCHANGED <<proc, exitCode>>
       ELSE /\ sigint' = "done"
            /\ closeState' = closeState
            /\ proc' = "exited"
            /\ exitCode' = 0
  /\ UNCHANGED <<uri, variant, coll, acked, netUp, listening, mongoClient, db, connState,
                 constructed, connectCalls, nreq, reqs, lastResp>>

\* close() resolves: log and process.exit(0)
CloseResolve ==
  /\ Running
  /\ sigint = "closing"
  /\ sigint' = "done"
  /\ closeState' = "resolved"
  /\ proc' = "exited"
  /\ exitCode' = 0
  /\ UNCHANGED <<uri, variant, coll, acked, netUp, listening, mongoClient, db, connState,
                 constructed, connectCalls, nreq, reqs, lastResp>>

\* close() rejects: nothing catches the rejection of the async handler, so
\* process.exit(0) is not reached.  The runtime either terminates the
\* process with exit code 1 (unhandled rejections throw) or only warns and
\* keeps running, depending on its version and flags.
CloseReject ==
  /\ Running
  /\ sigint = "closing"
  /\ closeState' = "rejected"
  /\ \/ /\ sigint' = "crashed"
        /\ proc' = "exited"
        /\ exitCode' = 1
     \/ /\ sigint' = "unhandled"
        /\ UNCHANGED <<proc, exitCode>>
  /\ UNCHANGED <<uri, variant, coll, acked, netUp, listening, mongoClient, db, connState,
                 constructed, connectCalls, nreq, reqs, lastResp>>

Next ==
  \/ Load
  \/ NetFlip
  \/ ListenCallback
  \/ \E op \in DataOps, b \in Bodies : ArriveData(op, b)
  \/ ArriveDiagnose
  \/ ArriveHealth
  \/ \E c \in Callers : ConnectSettle(c)
  \/ \E i \in Ids : DataDriverSettle(i)
  \/ \E i \in Ids : DiagProbeSettle(i)
  \/ \E i \in Ids : HealthProbeSettle(i)
  \/ Sigint
  \/ CloseResolve
  \/ CloseReject

Spec == Init /\ [][Next]_vars

\* the routes and handlers of server.js
NextBasic ==
  \/ Load
  \/ NetFlip
  \/ ListenCallback
  \/ \E op \in DataOps, b \in Bodies : ArriveData(op, b)
  \/ ArriveHealthBasic
  \/ \E c \in Callers : ConnectSettle(c)
  \/ \E i \in Ids : DataDriverSettle(i)
  \/ Sigint
  \/ CloseResolve
  \/ CloseReject

BasicSpec == InitBasic /\ [][NextBasic]_vars

\* the collections a query may find: documents with distinct keys
Collections ==
  UNION {{c \in [1..n -> Docs] : \A i, j \in 1..n : c[i] = c[j] => i = j} :
         n \in 0..MaxDocs}

\* the connected server in front of a collection that holds documents, all
\* requests but the last one having been /count requests already answered
InitQuery ==
  /\ variant = "enhanced"
  /\ coll \in Collections
  /\ acked = {}
  /\ uri = "ok"
  /\ netUp = TRUE
  /\ proc = "loaded"
  /\ exitCode = -1
  /\ listening = TRUE
  /\ mongoClient = "client"
  /\ db = "db"
  /\ connState = "ok"
  /\ constructed = 1
  /\ connectCalls = 1
  /\ sigint = "idle"
  /\ closeState = "none"
  /\ nreq = MaxReq - 1
  /\ reqs = [c \in Callers |->
              IF c = 0 THEN [NoReq EXCEPT !.kind = "startup", !.pc = "done"]
              ELSE IF c < MaxReq
                THEN Done([NoReq EXCEPT !.kind = "count", !.calls = 1], "db")
              ELSE NoReq]
  /\ lastResp = IF MaxReq > 1 THEN OkResp(MaxReq - 1, "count") ELSE NoResp

NextQuery ==
  \/ \E q \in Filters, o \in OptionValues : ArriveQuery(q, o)
  \/ \E i \in Ids : DataDriverSettle(i)

QuerySpec == InitQuery /\ [][NextQuery]_vars

\* every awaited connect(), driver call and probe settles
Fairness ==
  /\ \A c \in Callers : WF_vars(ConnectSettle(c))
  /\ \A i \in Ids : WF_vars(DataDriverSettle(i))
  /\ \A i \in Ids : WF_vars(DiagProbeSettle(i))
  /\ \A i \in Ids : WF_vars(HealthProbeSettle(i))

LiveSpec == Spec /\ Fairness

\* ================================================================ claims
\* requests of the six data operations, in flight or answered
IsData(r) == Family(r.kind) = "data"

\* callers of connectToMongo() among the HTTP requests
CallsConnect(r) == Family(r.kind) \in {"data", "diagnose"}

\* C1: whenever a data-operation handler gets past `await connectToMongo()`
\* without an exception and evaluates db.collection(...), the connection has
\* been established: db is non-null and connect() has completed successfully.
C1_AccessOnlyWhenConnected ==
  \A i \in Ids :
    (IsData(reqs[i]) /\ reqs[i].dbSeen # "none")
      => (reqs[i].dbSeen = "db" /\ connState = "ok")

\* C2: after connect() has failed, a later call of connectToMongo() (made by
\* an arriving data request or /diagnose) makes a new connection attempt.
C2_RetryAfterFailure ==
  [][(connState = "failed" /\ nreq' = nreq + 1 /\ CallsConnect(reqs'[nreq']))
       => connectCalls' = connectCalls + 1]_vars

\* C3: over any interleaving of connectToMongo() calls at most one
\* MongoClient is constructed and connect() is invoked at most once.
C3_AtMostOneConnection == constructed <= 1 /\ connectCalls <= 1

\* C3 witness: a request has called connectToMongo() after the startup
\* callback did, and the single connection is established.
C3_Witness ==
  /\ reqs[0].kind = "startup"
  /\ \E i \in Ids : CallsConnect(reqs[i])
  /\ connectCalls = 1
  /\ constructed = 1
  /\ connState = "ok"

\* the responses an operation can get when its request is the only caller
\* of connectToMongo() the process ever has
LoneResponses(op) ==
  {OkResp(0, op)} \cup
  {CatchResp(0, op, e) : e \in {ParseError, ConnectError, DriverError, DestructureError}}

\* C4: the response to a data request is determined only by its own body
\* and the database contents/reachability: it is one of the responses that
\* the same operation can get when it is the only request the process ever
\* handles, whatever else is in flight or was handled earlier.
C4_NoInterference ==
  lastResp.kind \in DataOps => lastResp \in LoneResponses(lastResp.kind)

\* the configured address is malformed or names a host that never answers
TargetInvalid == uri \in {"malformed", "unreachable"}

\* C5: while the configured address is invalid or unreachable every data
\* operation is answered with status 500 and a non-empty error message, and
\* handling requests never terminates the process.
C5_InvalidTargetGives500 ==
  TargetInvalid =>
    /\ lastResp.kind \in DataOps =>
         (lastResp.status = 500 /\ lastResp.error \notin {Absent, ""})
    /\ \A i \in Ids : IsData(reqs[i]) => reqs[i].pc \in {"connecting", "done"}
    /\ (sigint = "idle" /\ proc # "start") => (proc = "loaded" /\ exitCode = -1)

\* C5 witness: the startup attempt has failed and two data requests have
\* been answered since.
C5_Witness ==
  /\ uri = "unreachable"
  /\ connState = "failed"
  /\ reqs[0].pc = "done"
  /\ nreq >= 2
  /\ \A i \in 1..2 : IsData(reqs[i]) /\ reqs[i].pc = "done"
  /\ lastResp.status = 500

\* the state part of C6: responses sent per data request, and their shape
C6_Safety ==
  /\ \A i \in Ids : IsData(reqs[i]) =>
       /\ reqs[i].pc \in {"connecting", "driver", "done"}
       /\ reqs[i].sent = (IF reqs[i].pc = "done" THEN 1 ELSE 0)
  /\ lastResp.kind \in DataOps =>
       \/ lastResp.status = 200 /\ lastResp.result # Absent /\ lastResp.error = Absent
       \/ lastResp.status = 500 /\ lastResp.error # Absent /\ lastResp.result = Absent

\* C6: a data request sends at most one response, has sent exactly one when
\* its handler has returned, the response is 200 with the driver result or
\* 500 with an error body, and every data request in flight is eventually
\* resolved unless the process exits first (a resolved request stays
\* resolved, so this is: again and again no data request is in flight).
C6_ResolvedExactlyOnce ==
  /\ []C6_Safety
  /\ []<>(proc = "exited" \/ \A i \in Ids : IsData(reqs[i]) => reqs[i].pc = "done")

\* C6 witness: both outcomes have happened: one data request was answered
\* from the catch block, another with the driver result
C6_Witness ==
  /\ \E i \in Ids : IsData(reqs[i]) /\ reqs[i].pc = "done"
                    /\ reqs[i].dbSeen = "null" /\ reqs[i].sent = 1
  /\ \E i \in Ids : IsData(reqs[i]) /\ reqs[i].pc = "done"
                    /\ reqs[i].dbSeen = "db" /\ reqs[i].sent = 1
  /\ lastResp.status = 200
  /\ lastResp.kind \in DataOps

\* C7: once the SIGINT handler has run to its end the process has exited
\* with code 0, also when mongoClient.close() rejected.
C7_ExitZeroAfterSigint ==
  sigint \in {"done", "unhandled", "crashed"} => (proc = "exited" /\ exitCode = 0)

\* C8: every response of GET /health and GET /diagnose has status 200, and
\* their handlers end only by sending a response.
C8_ProbesAlways200 ==
  /\ lastResp.kind \in {"health", "diagnose"} => lastResp.status = 200
  /\ \A i \in Ids : reqs[i].kind \in {"health", "diagnose"} =>
       /\ reqs[i].sent = (IF reqs[i].pc = "done" THEN 1 ELSE 0)
       /\ reqs[i].pc \in {"connecting", "d_ping", "d_list", "d_count",
                          "d_findOne", "h_ping", "h_count", "done"}

\* C8 witness: /diagnose answered 200 with a failed connection probe
C8_Witness ==
  /\ lastResp.kind = "diagnose"
  /\ lastResp.status = 200
  /\ lastResp.tests.connection.status = "failed"

\* a sub-probe is reported: success, or failed with an error message
Reported(t) ==
  \/ t.status = "success"
  \/ t.status = "failed" /\ t.error \notin {Absent, ""}

\* C9 (as stated): every /diagnose response reports all four sub-probes,
\* each with status success or failed and an error message when failed.
C9_AllFourProbes ==
  lastResp.kind = "diagnose" =>
    /\ Reported(lastResp.tests.connection)
    /\ Reported(lastResp.tests.ping)
    /\ Reported(lastResp.tests.listCollections)
    /\ Reported(lastResp.tests.networkTests)

\* C9 (amended): every /diagnose response reports the connect sub-probe; when
\* it succeeded the other three are reported too, each with status success
\* or failed and an error message when failed; when it failed the response
\* ends there and reports no other sub-probe.
C9_ProbesAfterConnect ==
  lastResp.kind = "diagnose" =>
    /\ Reported(lastResp.tests.connection)
    /\ lastResp.tests.connection.status = "success" =>
         /\ Reported(lastResp.tests.ping)
         /\ Reported(lastResp.tests.listCollections)
         /\ Reported(lastResp.tests.networkTests)
    /\ lastResp.tests.connection.status = "failed" =>
         /\ lastResp.tests.ping = NoTest
         /\ lastResp.tests.listCollections = NoTest
         /\ lastResp.tests.networkTests = NoTest

\* C9 witness: a /diagnose response whose connect sub-probe failed
C9_Witness ==
  /\ lastResp.kind = "diagnose"
  /\ lastResp.tests.connection.status = "failed"
  /\ lastResp.tests.connection.error = ParseError.message
  /\ lastResp.tests.ping = NoTest

\* MONGODB_URI is unset or empty
TargetMissing == uri \in {"absent", "empty"}

\* C10: when MONGODB_URI is missing (unset or empty) the process exits with code 1 at load:
\* the listener is never opened, no connection is attempted and no request
\* is served.
C10_MissingUriExits ==
  TargetMissing =>
    /\ proc \in {"start", "exited"}
    /\ proc = "exited" => exitCode = 1
    /\ ~listening
    /\ constructed = 0 /\ connectCalls = 0 /\ mongoClient = "null"
    /\ nreq = 0 /\ lastResp = NoResp

\* C10 witness: the process has exited with code 1 for a missing address
C10_Witness == TargetMissing /\ proc = "exited" /\ exitCode = 1

\* C11: once mongoClient is assigned it is never reassigned or reset, once
\* db is non-null it never changes, and close() is called only by the SIGINT
\* handler, never in a step of a request handler.
C11_HandleNeverReplaced ==
  [][/\ mongoClient # "null" =>
          (mongoClient' = mongoClient /\ constructed' = constructed)
     /\ db # "null" => db' = db
     /\ (closeState' = "pending" /\ closeState # "pending") =>
          /\ sigint \in {"idle", "unhandled"} /\ sigint' = "closing"
          /\ reqs' = reqs /\ nreq' = nreq /\ lastResp' = lastResp]_vars

\* C11 witness: requests have used the established handle and the SIGINT
\* handler has called close() on it
C11_Witness ==
  /\ db = "db"
  /\ \E i \in Ids : IsData(reqs[i]) /\ reqs[i].pc = "done" /\ reqs[i].dbSeen = "db"
  /\ closeState = "pending"

\* C15: process.exit(0) is called only by the SIGINT handler; when a client
\* object exists (connected, connecting or failed) the handler has called
\* close() on it and the call has resolved before the process exits, and
\* while close() is pending the process has not exited; when no client
\* exists the process exits without any close() call.
C15_CloseAwaitedBeforeExit ==
  /\ exitCode = 0 => sigint = "done"
  /\ sigint = "done" =>
       /\ proc = "exited" /\ exitCode = 0
       /\ closeState = (IF mongoClient # "null" THEN "resolved" ELSE "none")
  /\ sigint = "closing" =>
       (mongoClient # "null" /\ closeState = "pending" /\ proc = "loaded")

\* C15 witness: the process has exited after closing a client whose
\* connect() was still outstanding
C15_Witness ==
  /\ proc = "exited" /\ exitCode = 0
  /\ mongoClient # "null" /\ connState = "pending"
  /\ closeState = "resolved"

\* C16: a data request issues at most one driver primitive call; a request
\* answered without having reached an established db has issued none; and
\* once its response is sent it issues no further call.
C16_OneDriverCall ==
  /\ [](\A i \in Ids : IsData(reqs[i]) =>
          /\ reqs[i].calls <= 1
          /\ (reqs[i].pc = "done" /\ reqs[i].dbSeen # "db") => reqs[i].calls = 0)
  /\ [][\A i \in Ids : (IsData(reqs[i]) /\ reqs[i].pc = "done") =>
                          reqs'[i] = reqs[i]]_vars

\* C16 witness: a data request whose single driver call failed has been
\* answered 500
C16_Witness ==
  /\ \E i \in Ids : IsData(reqs[i]) /\ reqs[i].pc = "done" /\ reqs[i].calls = 1
  /\ lastResp.kind \in DataOps
  /\ lastResp.status = 500
  /\ lastResp.error = DriverError.message

\* C17: whenever /diagnose has recorded the connection sub-probe as
\* 'success', the database handle is established at that moment.
C17_DiagnoseSuccessMeansConnected ==
  \A i \in Ids :
    (reqs[i].kind = "diagnose" /\ reqs[i].dbSeen # "none")
      => reqs[i].dbSeen = "db"

\* C18: in every state db is non-null only if mongoClient is non-null and
\* its connect() has completed successfully, and /health reports
\* connected=true exactly when db is non-null: it answers connected=false
\* at once when db is null, and otherwise probes and answers connected=true.
C18_DbOnlyAfterConnect ==
  /\ [](db # "null" => (mongoClient # "null" /\ connState = "ok"))
  /\ []((lastResp.kind = "health" /\ lastResp.connected = "true") => db # "null")
  /\ [][(nreq' = nreq + 1 /\ reqs'[nreq'].kind = "health") =>
          IF db = "null"
            THEN lastResp'.kind = "health" /\ lastResp'.connected = "false"
                 /\ reqs'[nreq'].pc = "done"
            ELSE reqs'[nreq'].pc = "h_ping"]_vars
  /\ [][\A i \in Ids :
          (reqs[i].pc \in {"h_ping", "h_count"} /\ reqs'[i].pc = "done") =>
            (lastResp'.kind = "health" /\ lastResp'.connected = "true")]_vars

\* C18 witness: the converse fails (a client with a pending connect() and
\* no db) while /health has answered connected=false
C18_Witness ==
  /\ mongoClient # "null" /\ connState = "pending" /\ db = "null"
  /\ lastResp.kind = "health" /\ lastResp.connected = "false"

\* a step of the /health handler of request i
HealthStep(i) ==
  /\ reqs[i].kind \in {"none", "health"}
  /\ reqs'[i].kind = "health"
  /\ reqs'[i] # reqs[i]

\* C19: no step of GET /health changes the connection state (mongoClient,
\* db, the connect() and close() calls); it waits for a probe only when db
\* is non-null, and when db is null it answers status 'ok' with
\* connected=false at once, without any probe.
C19_HealthLeavesConnectionAlone ==
  [][\A i \in Ids : HealthStep(i) =>
       /\ UNCHANGED <<mongoClient, db, connState, constructed, connectCalls,
                      closeState>>
       /\ reqs'[i].pc \in {"h_ping", "h_count"} => db # "null"
       /\ (reqs[i].pc = "none" /\ db = "null") =>
            /\ reqs'[i].pc = "done"
            /\ lastResp'.kind = "health" /\ lastResp'.status = 200
            /\ lastResp'.health = "ok" /\ lastResp'.connected = "false"
            /\ lastResp'.ping = Absent /\ lastResp'.pingError = Absent]_vars

\* C19 witness: /health has answered 'ok', connected=false, without a probe,
\* after the startup connection attempt failed
C19_Witness ==
  /\ connState = "failed" /\ db = "null"
  /\ lastResp.kind = "health" /\ lastResp.health = "ok"
  /\ lastResp.connected = "false" /\ lastResp.ping = Absent

\* C12: a failed /query, /aggregate, /count or /distinct request is answered
\* 500 with error, code (when the underlying error carries one) and
\* details; a failed /insertOne or /insertMany request is answered 500 with
\* error only.
C12_ErrorBodyShape ==
  lastResp.status = 500 =>
    /\ lastResp.error \notin {Absent, ""}
    /\ lastResp.kind \in {"query", "aggregate", "count", "distinct"} =>
         /\ lastResp.details # Absent
         /\ lastResp.code = (IF lastResp.error = DriverError.message
                               THEN DriverError.code ELSE Absent)
    /\ lastResp.kind \in {"insertOne", "insertMany"} =>
         (lastResp.code = Absent /\ lastResp.details = Absent)

\* an option value that is present and truthy
Applies(v) == v \notin {Undefined, Null, Num(0)}

\* the driver call of request i is issued in this step
Issues(i) == reqs[i].pc # "driver" /\ reqs'[i].pc = "driver"

\* the /query request i is answered 200 in this step
QueryAnswered(i) ==
  /\ reqs[i].kind = "query" /\ reqs[i].pc = "driver"
  /\ reqs'[i].pc = "done" /\ lastResp'.status = 200

\* C13: the handler of /query calls sort, skip and limit on the cursor, in
\* this order, each exactly when its options field is present and truthy;
\* in front of a collection that no request writes to, a query without
\* options that reaches toArray() is answered with all the documents
\* matching the filter in natural order, and one that matches no document
\* with the empty array, status 200.
C13_QueryOptions ==
  /\ [](\A i \in Ids : (reqs[i].kind = "query" /\ reqs[i].pc = "driver") =>
          LET o == reqs[i].options
          IN reqs[i].cursor =
               SelectSeq(<<Call("sort", o.sort), Call("skip", o.skip),
                           Call("limit", o.limit)>>,
                         LAMBDA c : Applies(c.arg)))
  /\ [][\A i \in Ids : QueryAnswered(i) =>
          LET o == reqs[i].options
              matching == SelectSeq(coll, LAMBDA d : d = reqs[i].query
                                                     \/ reqs[i].query = 0)
          IN /\ lastResp'.kind = "query"
             /\ (o.sort = Undefined /\ o.skip = Undefined /\ o.limit = Undefined)
                  => lastResp'.docs = matching
             /\ matching = <<>> => lastResp'.docs = <<>>]_vars

\* a query for { k: -1 } order with skip 0 and limit 1 on the collection
\* <<1, 2>>: sort and limit are called, skip is not, and document 2 is read
C13_Witness ==
  /\ coll = <<1, 2>>
  /\ \E i \in Ids :
       /\ reqs[i].kind = "query" /\ reqs[i].pc = "driver"
       /\ reqs[i].options.sort = SortBy(-1)
       /\ reqs[i].options.skip = Num(0)
       /\ reqs[i].options.limit = Num(1)
       /\ reqs[i].cursor = <<Call("sort", SortBy(-1)), Call("limit", Num(1))>>
       /\ reqs[i].found = <<2>>

\* C14: once /insertOne has been answered 200 for a document, a /query
\* issued afterwards whose filter matches the document reads it, and the
\* 200 response of a /query carries what it has read.
C14_ReadAfterWrite ==
  /\ [][\A i \in Ids : (Issues(i) /\ reqs'[i].kind = "query") =>
          \A d \in acked :
            (reqs'[i].query = 0 \/ reqs'[i].query = d) =>
              \E k \in 1..Len(reqs'[i].found) : reqs'[i].found[k] = d]_vars
  /\ [][\A i \in Ids : QueryAnswered(i) => lastResp'.docs = reqs[i].found]_vars

C14_Witness ==
  /\ acked = {1}
  /\ lastResp.kind = "query" /\ lastResp.status = 200
  /\ \E k \in 1..Len(lastResp.docs) : lastResp.docs[k] = 1
====
